---- MODULE Spec2Model ----
(***************************************************************************)
(* Model of the offline-signing demo: create_unsigned_tx.py (online,       *)
(* watch-only discovery, coin selection and unsigned bundle construction)  *)
(* and sign_tx.py (offline signer).                                        *)
(*                                                                         *)
(* Hashes (Coin.name, std_hash, Announcement.name, get_tree_hash) are      *)
(* modelled as injective constructors: the hash of x is a tagged tuple     *)
(* holding x.  A list of puzzle hashes is kept as a sequence of index      *)
(* segments [kind, lo, hi] (the puzzle hashes of the child keys lo..hi of  *)
(* one derivation kind, in order), so that a batch of 1000 derived keys is *)
(* one segment.  An optional value (None) is a sequence of length 0 or 1.  *)
(***************************************************************************)
EXTENDS Integers, Sequences, FiniteSets, Bags, TLC

\* ---------------------------------------------------------------- constants
\* range(1000): size of one derivation batch
BatchSize == 1000
\* range(100000000): upper limit of the batch loop
MaxBatches == 100000000
\* range(5000): number of child keys the signer derives
SignerKeys == 5000
\* DEFAULT_CONSTANTS.MAX_BLOCK_COST_CLVM = 11000000000, here in units of
\* 500000000 cost (TLC integers are 32 bit); half of it is 11 units
MAX_BLOCK_COST_CLVM == 22

\* ------------------------------------------------------------------- bounds
MaxOutputs == 2
MaxOutAmount == 1
MaxFee == 1

\* ------------------------------------------------------------ value helpers
Range(s) == {s[i] : i \in DOMAIN s}

RECURSIVE SumSeq(_)
SumSeq(s) == IF s = <<>> THEN 0 ELSE Head(s) + SumSeq(Tail(s))

\* the orders in which a list holding exactly the elements of S can arrive
Orderings(S) ==
    {f \in [1..Cardinality(S) -> S] :
        \A i, j \in 1..Cardinality(S) : i # j => f[i] # f[j]}

\* ------------------------------------------------------ keys and addresses
\* puzzle_for_pk(derive_child_pk_unhardened(parent_pk, i)).get_tree_hash()
UnhardenedPuzzleHash(i) == <<"u", i>>
\* puzzle hash of the i-th hardened child key
HardenedPuzzleHash(i) == <<"h", i>>
\* a puzzle hash of a payee, not derived from the wallet's keys
PayeePuzzleHash(i) == <<"d", i>>

Segment(kind, lo, hi) == [kind |-> kind, lo |-> lo, hi |-> hi]

\* ph in <list of puzzle hashes>
InSegments(ph, segs) ==
    \E k \in DOMAIN segs :
        /\ ph[1] = segs[k].kind
        /\ segs[k].lo <= ph[2]
        /\ ph[2] <= segs[k].hi

\* puzzle_hashes[0]
FirstPuzzleHash(segs) == <<segs[1].kind, segs[1].lo>>

\* encode_puzzle_hash(puzzle_hash, prefix): bech32m text with a checksum
encode_puzzle_hash(ph, prefix) == [hrp |-> prefix, data |-> ph, checksum |-> TRUE]
\* a text whose checksum does not verify
BadAddress == [hrp |-> "txch", data |-> PayeePuzzleHash(0), checksum |-> FALSE]
\* decode_puzzle_hash(address) raises ValueError on a bad checksum
DecodeFails(address) == ~address.checksum
decode_puzzle_hash(address) == address.data

\* ------------------------------------------------------------------- coins
Coin(parent, ph, amount) ==
    [parent_coin_info |-> parent, puzzle_hash |-> ph, amount |-> amount]
\* Coin.name(): hash of parent, puzzle hash and amount
CoinName(c) == <<"coin", c.parent_coin_info, c.puzzle_hash, c.amount>>
CoinRecord(k, ph, amount, ts, spent) ==
    [coin |-> Coin(<<"genesis", k>>, ph, amount), timestamp |-> ts, spent |-> spent]

\* std_hash(b"".join(message_list)): names are 32 bytes each, so the
\* concatenation determines the list
std_hash(list) == <<"hash", list>>
\* Announcement(origin, message).name()
AnnouncementName(origin, message) == <<"ann", origin, message>>

\* ---------------------------------------------------------- the environment
\* coins of a wallet that only used low indices: two batches, a gap at
\* batch 1 when only batch 0 and batch 2 hold coins, ties in timestamps, two
\* coins on one address, one spent coin, and coins of hardened keys
ShallowRecords ==
    { CoinRecord(1, UnhardenedPuzzleHash(0), 1, 2, FALSE),
      CoinRecord(2, UnhardenedPuzzleHash(999), 1, 1, FALSE),
      CoinRecord(3, UnhardenedPuzzleHash(0), 2, 2, FALSE),
      CoinRecord(4, UnhardenedPuzzleHash(1000), 1, 1, FALSE),
      CoinRecord(5, UnhardenedPuzzleHash(1001), 2, 1, TRUE),
      CoinRecord(6, UnhardenedPuzzleHash(2000), 2, 3, FALSE) }

HardenedRecords ==
    { CoinRecord(7, HardenedPuzzleHash(0), 2, 2, FALSE),
      CoinRecord(8, HardenedPuzzleHash(5000), 1, 1, FALSE) }

\* coins of a wallet that used one address in each of the first batches
DeepRecords ==
    { CoinRecord(10, UnhardenedPuzzleHash(0), 1, 1, FALSE),
      CoinRecord(11, UnhardenedPuzzleHash(1000), 1, 3, FALSE),
      CoinRecord(12, UnhardenedPuzzleHash(2000), 1, 3, FALSE),
      CoinRecord(13, UnhardenedPuzzleHash(3000), 1, 3, FALSE),
      CoinRecord(14, UnhardenedPuzzleHash(4999), 1, 3, FALSE),
      CoinRecord(15, UnhardenedPuzzleHash(5000), 1, 2, FALSE) }
FarRecord == CoinRecord(16, UnhardenedPuzzleHash(9999), 1, 1, FALSE)

Ledgers ==
    (SUBSET ShallowRecords)
    \cup {s \cup HardenedRecords : s \in SUBSET {r \in ShallowRecords : r.coin.amount = 1}}
    \cup {DeepRecords, DeepRecords \cup {FarRecord},
          (DeepRecords \ {CoinRecord(15, UnhardenedPuzzleHash(5000), 1, 2, FALSE)})
              \cup {FarRecord}}

\* the addresses of the two payees of main
Addresses ==
    {encode_puzzle_hash(PayeePuzzleHash(1), "txch"),
     encode_puzzle_hash(PayeePuzzleHash(2), "txch")}
\* an output requested by the caller: an amount for the first payee, or an
\* amount for a text that is no address
OutputChoices ==
    ({encode_puzzle_hash(PayeePuzzleHash(1), "txch")} \X (0..MaxOutAmount))
    \cup {<<BadAddress, 1>>}
OutputLists == UNION {[1..n -> OutputChoices] : n \in 0..MaxOutputs}

\* sign_tx.create_hardened_child_public_keys(mnemonic, number): the file
\* child_public_keys.txt holds the hardened child keys 0..number-1 in order
create_hardened_child_public_keys(number) == <<Segment("h", 0, number - 1)>>
\* the public_keys argument: None (here <<>>, unhardened mode) or the keys
\* of a file written with number = 1000 (the call shown in sign_tx.main) or
\* with a number above the signer's range
PublicKeyLists ==
    {<<>>} \cup {create_hardened_child_public_keys(n) : n \in {1000, 6000}}

\* client.get_coin_records_by_puzzle_hashes(segs, False): unspent records
\* whose puzzle hash is one of the queried ones
CoinsFor(ledger, segs) ==
    {r \in ledger : ~r.spent /\ InSegments(r.coin.puzzle_hash, segs)}

\* client.get_blockchain_state(): what the node can answer
BlockchainStates == {[sync |-> [synced |-> b]] : b \in BOOLEAN}

\* the cost the puzzle-execution oracle can report for a bundle
CostValues == {(MAX_BLOCK_COST_CLVM \div 2) - 1, MAX_BLOCK_COST_CLVM \div 2,
               (MAX_BLOCK_COST_CLVM \div 2) + 1}

\* ----------------------------------------------------------- pure functions
\* records.sort(key=lambda r: r.timestamp): stable, ascending
RECURSIVE InsertByTimestamp(_, _)
InsertByTimestamp(r, s) ==
    IF s = <<>> THEN <<r>>
    ELSE IF r.timestamp < Head(s).timestamp THEN <<r>> \o s
    ELSE <<Head(s)>> \o InsertByTimestamp(r, Tail(s))

RECURSIVE SortByTimestamp(_)
SortByTimestamp(s) ==
    IF s = <<>> THEN <<>>
    ELSE InsertByTimestamp(s[Len(s)], SortByTimestamp(SubSeq(s, 1, Len(s) - 1)))

\* sum([t[1] for t in outputs]) + fee
TotalAmount(outs, f) == SumSeq([i \in DOMAIN outs |-> outs[i][2]]) + f

\* lines 156-161: one entry per output, then the change when it is positive
Primaries(outs, chg, segs) ==
    [i \in DOMAIN outs |->
        [puzzlehash |-> decode_puzzle_hash(outs[i][1]), amount |-> outs[i][2]]]
    \o (IF chg > 0
        THEN <<[puzzlehash |-> FirstPuzzleHash(segs), amount |-> chg]>>
        ELSE <<>>)

\* a message that commits to the selected coins only
BindingMessage_InputsOnly(sel, prims, coin) ==
    std_hash([i \in DOMAIN sel |-> CoinName(sel[i])])

\* lines 169-172: names of the selected coins, then of the new coins
BindingMessage(sel, prims, coin) ==
    std_hash([i \in DOMAIN sel |-> CoinName(sel[i])]
             \o [i \in DOMAIN prims |->
                    CoinName(Coin(CoinName(coin), prims[i].puzzlehash, prims[i].amount))])

\* Wallet().make_solution(primaries, fee, coin_announcements,
\* coin_announcements_to_assert): the conditions the solution asks for
make_solution(prims, f, announce, assert) ==
    [primaries |-> prims, fee |-> f,
     coin_announcements |-> announce, coin_announcements_to_assert |-> assert]

CoinSolution(coin, puzzle, solution) ==
    [coin |-> coin, puzzle_reveal |-> puzzle, solution |-> solution]
\* puzzle_for_pk(pk): the standard puzzle of the key owning puzzle hash ph
puzzle_for_pk(ph) == <<"p2", ph>>

SpendBundle(spends, sig) == [coin_solutions |-> spends, aggregated_signature |-> sig]

\* SpendBundle.additions(): the coins the spends create
RECURSIVE Additions(_)
Additions(spends) ==
    IF spends = <<>> THEN <<>>
    ELSE [i \in DOMAIN Head(spends).solution.primaries |->
            Coin(CoinName(Head(spends).coin),
                 Head(spends).solution.primaries[i].puzzlehash,
                 Head(spends).solution.primaries[i].amount)]
         \o Additions(Tail(spends))

\* SpendBundle.fees(): amount consumed minus amount created
Fees(bundle) ==
    SumSeq([i \in DOMAIN bundle.coin_solutions |-> bundle.coin_solutions[i].coin.amount])
    - SumSeq([i \in DOMAIN Additions(bundle.coin_solutions) |->
                Additions(bundle.coin_solutions)[i].amount])

\* SpendBundle.to_json_dict() / from_json_dict(): the transport document
to_json_dict(bundle) ==
    <<"json", bundle.coin_solutions, bundle.aggregated_signature>>
from_json_dict(doc) == SpendBundle(doc[2], doc[3])

\* sign_tx, line 48: ADDITIONAL_DATA of the network
additional_data == <<"ccd5bb71">>
\* calculate_synthetic_secret_key(sk, DEFAULT_HIDDEN_PUZZLE_HASH), sk being
\* the private key owning puzzle hash ph
calculate_synthetic_secret_key(ph) == <<"synthetic_sk", ph>>
\* conditions_dict_for_solution: running the standard puzzle on a solution
\* made by make_solution succeeds; any other puzzle reveal is an error here
RunError(cs) == cs.puzzle_reveal[1] # "p2"
\* pkm_pairs_for_conditions_dict: the standard puzzle emits one AGG_SIG_ME
\* on the hash of the delegated conditions; its message is followed by the
\* coin name and the additional data
pkm_pairs(cs) ==
    <<<<cs.puzzle_reveal[2], <<"msg", cs.solution, CoinName(cs.coin), additional_data>>>>>>
\* AugSchemeMPL.sign(sk, msg)
Sign(sk, msg) == <<"sig", sk, msg>>
\* AugSchemeMPL.aggregate([agg, sig]): commutative, associative
Aggregate(agg, sig) == agg (+) SetToBag({sig})
\* lines 51-66: the 5000 child keys of the chosen derivation kind
SignerKeyMap(hardened) ==
    <<Segment(IF hardened THEN "h" ELSE "u", 0, SignerKeys - 1)>>

\* -------------------------------------------------------------------- state
VARIABLES
    ledger, outputs, fee, public_keys,               \* inputs and environment
    pc, state, stateCalls, derivLog, queryLog, inflight,  \* control, call logs
    batch, puzzle_hashes, puzzle_hash_to_pk, new_puzzle_hashes, records,
    total_amount, selected_coins, total_selected_amount, idx,
    change, primaries, primary_announcement_hash, message, spends,
    cost, emitted,
    use_hardened_keys, pcS, spend_bundle, puzzle_hash_to_sk,      \* the signer
    aggregate_signature, signed, sigIdx, signedOut

inputVars == <<ledger, outputs, fee, public_keys>>
signVars == <<use_hardened_keys, pcS, spend_bundle, puzzle_hash_to_sk,
              aggregate_signature, signed, sigIdx, signedOut>>
scanVars == <<batch, puzzle_hashes, puzzle_hash_to_pk, new_puzzle_hashes, records>>
selectVars == <<total_amount, selected_coins, total_selected_amount>>
buildVars == <<change, primaries, primary_announcement_hash, message, spends>>
logVars == <<state, stateCalls, derivLog, queryLog, inflight>>
vars == <<inputVars, pc, logVars, scanVars, selectVars, idx, buildVars, cost, emitted,
          signVars>>

Init ==
    /\ ledger \in Ledgers
    /\ outputs \in OutputLists
    /\ fee \in 0..MaxFee
    /\ public_keys \in PublicKeyLists
    /\ pc = "main"
    /\ state = <<>>
    /\ stateCalls = 0
    /\ derivLog = <<>>
    /\ queryLog = <<>>
    /\ inflight = <<>>
    /\ batch = 0
    /\ puzzle_hashes = <<>>
    /\ puzzle_hash_to_pk = <<>>
    /\ new_puzzle_hashes = <<>>
    /\ records = <<>>
    /\ total_amount = 0
    /\ selected_coins = <<>>
    /\ total_selected_amount = 0
    /\ idx = 1
    /\ change = 0
    /\ primaries = <<>>
    /\ primary_announcement_hash = <<>>
    /\ message = <<>>
    /\ spends = <<>>
    /\ cost = 0
    /\ emitted = <<>>
    /\ use_hardened_keys = FALSE
    /\ pcS = "main"
    /\ spend_bundle = <<>>
    /\ puzzle_hash_to_sk = <<>>
    /\ aggregate_signature = EmptyBag
    /\ signed = 0
    /\ sigIdx = 1
    /\ signedOut = <<>>

\* ------------------------------------------------- create_unsigned_tx.main
\* main, lines 204-207: the addresses main derives from the parent key
MainAddresses ==
    <<Segment("u", 0, 0), Segment("u", 100, 100),
      Segment("u", 110, 110), Segment("u", 1400, 1400)>>
\* main, lines 218-219: the addresses main computes from the key file
MainHardenedAddresses == <<Segment("h", 0, 0), Segment("h", 500, 500)>>

\* main, lines 202-219: addresses are derived and printed
MainPrintAddresses ==
    /\ pc = "main"
    /\ derivLog' = MainAddresses
                    \o (IF Len(public_keys) > 0 THEN MainHardenedAddresses ELSE <<>>)
    /\ pc' = "get_state"
    /\ UNCHANGED <<inputVars, state, stateCalls, queryLog, inflight, scanVars,
                   selectVars, idx, buildVars, cost, emitted, signVars>>

\* the sync state is fetched but not looked at
GetBlockchainState_NoSyncCheck ==
    /\ pc = "get_state"
    /\ \E answer \in BlockchainStates : state' = <<answer>>
    /\ stateCalls' = stateCalls + 1
    /\ pc' = IF Len(public_keys) > 0 THEN "hardened_keys" ELSE "derive_batch"
    /\ UNCHANGED <<inputVars, derivLog, queryLog, inflight, scanVars, selectVars,
                   idx, buildVars, cost, emitted, signVars>>

\* create_transaction, lines 96-107: the sync check and the choice of mode
GetBlockchainState ==
    /\ pc = "get_state"
    /\ \E answer \in BlockchainStates : state' = <<answer>>
    /\ stateCalls' = stateCalls + 1
    /\ pc' = IF ~state'[1].sync.synced THEN "not_synced"
             ELSE IF Len(public_keys) > 0 THEN "hardened_keys"
             ELSE "derive_batch"
    /\ UNCHANGED <<inputVars, derivLog, queryLog, inflight, scanVars, selectVars,
                   idx, buildVars, cost, emitted,
                   signVars>>

\* lines 109-114: one puzzle hash per given public key, then one query
HardenedKeys ==
    /\ pc = "hardened_keys"
    /\ puzzle_hashes' = public_keys
    /\ puzzle_hash_to_pk' = puzzle_hashes'
    /\ inflight' = <<puzzle_hashes'>>
    /\ queryLog' = Append(queryLog, puzzle_hashes')
    /\ pc' = "await_records"
    /\ UNCHANGED <<inputVars, state, stateCalls, derivLog, batch, new_puzzle_hashes, records,
                   selectVars, idx, buildVars, cost, emitted,
                   signVars>>

\* line 114: the answer of the node arrives
HardenedRecordsReturn ==
    /\ pc = "await_records"
    /\ \E answer \in Orderings(CoinsFor(ledger, inflight[1])) :
          records' = answer
    /\ inflight' = <<>>
    /\ pc' = "sort"
    /\ UNCHANGED <<inputVars, state, stateCalls, derivLog, queryLog, batch, puzzle_hashes,
                   puzzle_hash_to_pk, new_puzzle_hashes, selectVars, idx, buildVars,
                   cost, emitted,
                   signVars>>

\* lines 118-127: derive the 1000 keys of the batch and send the query
DeriveBatch ==
    /\ pc = "derive_batch"
    /\ IF batch < MaxBatches
       THEN LET seg == Segment("u", batch * BatchSize, batch * BatchSize + BatchSize - 1)
            IN /\ new_puzzle_hashes' = <<seg>>
               /\ puzzle_hashes' = Append(puzzle_hashes, seg)
               /\ puzzle_hash_to_pk' = Append(puzzle_hash_to_pk, seg)
               /\ derivLog' = Append(derivLog, seg)
               /\ inflight' = <<new_puzzle_hashes'>>
               /\ queryLog' = Append(queryLog, new_puzzle_hashes')
               /\ pc' = "await_batch"
       ELSE /\ pc' = "sort"
            /\ UNCHANGED <<new_puzzle_hashes, puzzle_hashes, puzzle_hash_to_pk,
                           derivLog, inflight, queryLog>>
    /\ UNCHANGED <<inputVars, state, stateCalls, batch, records, selectVars, idx, buildVars,
                   cost, emitted,
                   signVars>>

\* a scan that tolerates an empty batch 0 or 1 and goes on
BatchRecordsReturn_SkipGap ==
    /\ pc = "await_batch"
    /\ \E new_records \in Orderings(CoinsFor(ledger, inflight[1])) :
          IF Len(new_records) = 0 /\ batch >= 2
          THEN /\ pc' = "sort"
               /\ UNCHANGED <<records, batch>>
          ELSE /\ records' = records \o new_records
               /\ batch' = batch + 1
               /\ pc' = "derive_batch"
    /\ inflight' = <<>>
    /\ UNCHANGED <<inputVars, state, stateCalls, derivLog, queryLog, puzzle_hashes,
                   puzzle_hash_to_pk, new_puzzle_hashes, selectVars, idx, buildVars,
                   cost, emitted, signVars>>

\* lines 127-130: the answer arrives; an empty answer ends the scan
BatchRecordsReturn ==
    /\ pc = "await_batch"
    /\ \E new_records \in Orderings(CoinsFor(ledger, inflight[1])) :
          IF Len(new_records) = 0
          THEN /\ pc' = "sort"
               /\ UNCHANGED <<records, batch>>
          ELSE /\ records' = records \o new_records
               /\ batch' = batch + 1
               /\ pc' = "derive_batch"
    /\ inflight' = <<>>
    /\ UNCHANGED <<inputVars, state, stateCalls, derivLog, queryLog, puzzle_hashes,
                   puzzle_hash_to_pk, new_puzzle_hashes, selectVars, idx, buildVars,
                   cost, emitted,
                   signVars>>

\* lines 136-142: the target, the sort, the start of the selection loop
SortRecords ==
    /\ pc = "sort"
    /\ total_amount' = TotalAmount(outputs, fee)
    /\ records' = SortByTimestamp(records)
    /\ selected_coins' = <<>>
    /\ total_selected_amount' = 0
    /\ idx' = 1
    /\ pc' = "select"
    /\ UNCHANGED <<inputVars, logVars, batch, puzzle_hashes, puzzle_hash_to_pk,
                   new_puzzle_hashes, buildVars, cost, emitted,
                   signVars>>

\* a loop that stops only once the running total exceeds the target
SelectCoin_StrictBreak ==
    /\ pc = "select"
    /\ idx <= Len(records)
    /\ total_selected_amount' = total_selected_amount + records[idx].coin.amount
    /\ IF records[idx].coin \in Range(selected_coins)
       THEN /\ pc' = "duplicate_coin"
            /\ UNCHANGED <<selected_coins, idx>>
       ELSE /\ selected_coins' = Append(selected_coins, records[idx].coin)
            /\ idx' = idx + 1
            /\ pc' = IF total_selected_amount' > total_amount
                     THEN "check_funds" ELSE "select"
    /\ UNCHANGED <<inputVars, logVars, scanVars, total_amount, buildVars, cost, emitted,
                   signVars>>

\* lines 143-149: one iteration of the selection loop
SelectCoin ==
    /\ pc = "select"
    /\ idx <= Len(records)
    /\ total_selected_amount' = total_selected_amount + records[idx].coin.amount
    /\ IF records[idx].coin \in Range(selected_coins)
       THEN /\ pc' = "duplicate_coin"
            /\ UNCHANGED <<selected_coins, idx>>
       ELSE /\ selected_coins' = Append(selected_coins, records[idx].coin)
            /\ idx' = idx + 1
            /\ pc' = IF total_selected_amount' >= total_amount
                     THEN "check_funds" ELSE "select"
    /\ UNCHANGED <<inputVars, logVars, scanVars, total_amount, buildVars, cost, emitted,
                   signVars>>

\* line 143: the records are exhausted
SelectExhausted ==
    /\ pc = "select"
    /\ idx > Len(records)
    /\ pc' = "check_funds"
    /\ UNCHANGED <<inputVars, logVars, scanVars, selectVars, idx, buildVars, cost,
                   emitted,
                   signVars>>

\* a funds check that also refuses an exact match
InsufficientFunds_OffByOne ==
    /\ pc = "check_funds"
    /\ total_selected_amount <= total_amount
    /\ pc' = "insufficient"
    /\ UNCHANGED <<inputVars, logVars, scanVars, selectVars, idx, buildVars, cost,
                   emitted, signVars>>

\* lines 150-152: not enough coins
InsufficientFunds ==
    /\ pc = "check_funds"
    /\ total_selected_amount < total_amount
    /\ pc' = "insufficient"
    /\ UNCHANGED <<inputVars, logVars, scanVars, selectVars, idx, buildVars, cost,
                   emitted,
                   signVars>>

\* lines 154-164: the change and the list of coins to create
MakePrimaries ==
    /\ pc = "check_funds"
    /\ total_selected_amount >= total_amount
    /\ change' = total_selected_amount - total_amount
    /\ IF \E i \in DOMAIN outputs : DecodeFails(outputs[i][1])
       THEN /\ pc' = "invalid_address"
            /\ UNCHANGED <<primaries, idx>>
       ELSE /\ primaries' = Primaries(outputs, change', puzzle_hashes)
            /\ idx' = 1
            /\ pc' = "build"
    /\ UNCHANGED <<inputVars, logVars, scanVars, selectVars,
                   primary_announcement_hash, message, spends, cost, emitted,
                   signVars>>

\* a loop whose non-primary spends assert an announcement of their own coin
BuildSpend_OwnAnnouncement ==
    /\ pc = "build"
    /\ idx <= Len(selected_coins)
    /\ LET coin == selected_coins[idx]
           puzzle == puzzle_for_pk(coin.puzzle_hash)
       IN IF ~InSegments(coin.puzzle_hash, puzzle_hash_to_pk)
          THEN /\ pc' = "key_error"
               /\ UNCHANGED <<message, primary_announcement_hash, spends, idx>>
          ELSE /\ IF primary_announcement_hash = <<>>
                  THEN LET m == BindingMessage(selected_coins, primaries, coin)
                       IN /\ message' = <<m>>
                          /\ primary_announcement_hash' =
                                <<AnnouncementName(CoinName(coin), m)>>
                          /\ spends' = Append(spends, CoinSolution(coin, puzzle,
                                make_solution(primaries, fee, <<m>>, <<>>)))
                  ELSE /\ spends' = Append(spends, CoinSolution(coin, puzzle,
                                make_solution(<<>>, 0, <<>>,
                                   <<AnnouncementName(CoinName(coin), message[1])>>)))
                       /\ UNCHANGED <<message, primary_announcement_hash>>
               /\ idx' = idx + 1
               /\ pc' = "build"
    /\ UNCHANGED <<inputVars, logVars, scanVars, selectVars, change, primaries, cost,
                   emitted, signVars>>

\* lines 165-177: one iteration of the loop over the selected coins
BuildSpend ==
    /\ pc = "build"
    /\ idx <= Len(selected_coins)
    /\ LET coin == selected_coins[idx]
           puzzle == puzzle_for_pk(coin.puzzle_hash)
       IN IF ~InSegments(coin.puzzle_hash, puzzle_hash_to_pk)
          THEN /\ pc' = "key_error"
               /\ UNCHANGED <<message, primary_announcement_hash, spends, idx>>
          ELSE /\ IF primary_announcement_hash = <<>>
                  THEN LET m == BindingMessage(selected_coins, primaries, coin)
                       IN /\ message' = <<m>>
                          /\ primary_announcement_hash' =
                                <<AnnouncementName(CoinName(coin), m)>>
                          /\ spends' = Append(spends, CoinSolution(coin, puzzle,
                                make_solution(primaries, fee, <<m>>, <<>>)))
                  ELSE /\ spends' = Append(spends, CoinSolution(coin, puzzle,
                                make_solution(<<>>, 0, <<>>, primary_announcement_hash)))
                       /\ UNCHANGED <<message, primary_announcement_hash>>
               /\ idx' = idx + 1
               /\ pc' = "build"
    /\ UNCHANGED <<inputVars, logVars, scanVars, selectVars, change, primaries, cost,
                   emitted,
                   signVars>>

\* a cost check that prints the cost and asserts nothing
CheckCost_NoAssert ==
    /\ pc = "build"
    /\ idx > Len(selected_coins)
    /\ \E c \in CostValues :
          /\ cost' = c
          /\ pc' = "check_fee"
    /\ UNCHANGED <<inputVars, logVars, scanVars, selectVars, idx, buildVars, emitted,
                   signVars>>

\* lines 179-181 and check_cost: the oracle reports a cost, which must be
\* below half of the block limit
CheckCost ==
    /\ pc = "build"
    /\ idx > Len(selected_coins)
    /\ \E c \in CostValues :
          /\ cost' = c
          /\ pc' = IF 2 * c < MAX_BLOCK_COST_CLVM THEN "check_fee" ELSE "cost_exceeded"
    /\ UNCHANGED <<inputVars, logVars, scanVars, selectVars, idx, buildVars, emitted,
                   signVars>>

\* lines 182-192: the fee assertion, print_conditions (which asserts that
\* every puzzle runs without error), then the bundle is printed and returned
EmitBundle ==
    /\ pc = "check_fee"
    /\ LET bundle == SpendBundle(spends, EmptyBag)
       IN IF Fees(bundle) # fee
          THEN /\ pc' = "fee_mismatch"
               /\ UNCHANGED emitted
          ELSE IF \E k \in DOMAIN spends : RunError(spends[k])
          THEN /\ pc' = "conditions_error"
               /\ UNCHANGED emitted
          ELSE /\ emitted' = <<to_json_dict(bundle)>>
               /\ pc' = "done"
    /\ UNCHANGED <<inputVars, logVars, scanVars, selectVars, idx, buildVars, cost,
                   signVars>>

\* ------------------------------------------------------------ sign_tx.main
Terminated ==
    pc \in {"not_synced", "insufficient", "invalid_address", "duplicate_coin",
            "key_error", "cost_exceeded", "fee_mismatch", "conditions_error", "done"}

\* main, lines 115-125, and sign_tx, lines 48-68: the transport document is
\* read (when the builder printed none there is no file) and the key map of
\* the signing session is built
SignMain ==
    /\ pcS = "main"
    /\ Terminated
    /\ IF emitted = <<>>
       THEN /\ pcS' = "no_file"
            /\ UNCHANGED <<spend_bundle, puzzle_hash_to_sk, use_hardened_keys>>
       ELSE /\ spend_bundle' = <<from_json_dict(emitted[1])>>
            /\ use_hardened_keys' \in BOOLEAN
            /\ puzzle_hash_to_sk' = SignerKeyMap(use_hardened_keys')
            /\ pcS' = "sign"
    /\ aggregate_signature' = EmptyBag
    /\ sigIdx' = 1
    /\ UNCHANGED <<inputVars, pc, logVars, scanVars, selectVars, idx, buildVars, cost,
                   emitted, signed, signedOut>>

\* a loop that skips a coin solution whose key is unknown and goes on
SignCoinSolution_SkipUnknown ==
    /\ pcS = "sign"
    /\ sigIdx <= Len(spend_bundle[1].coin_solutions)
    /\ LET coin_solution == spend_bundle[1].coin_solutions[sigIdx]
       IN IF ~InSegments(coin_solution.coin.puzzle_hash, puzzle_hash_to_sk)
          THEN /\ sigIdx' = sigIdx + 1
               /\ pcS' = "sign"
               /\ UNCHANGED <<aggregate_signature, signed>>
          ELSE LET sk == calculate_synthetic_secret_key(coin_solution.coin.puzzle_hash)
                   msg == pkm_pairs(coin_solution)[1][2]
               IN /\ aggregate_signature' =
                        Aggregate(aggregate_signature, Sign(sk, msg))
                  /\ signed' = signed + 1
                  /\ sigIdx' = sigIdx + 1
                  /\ pcS' = "sign"
    /\ UNCHANGED <<inputVars, pc, logVars, scanVars, selectVars, idx, buildVars, cost,
                   emitted, use_hardened_keys, spend_bundle, puzzle_hash_to_sk, signedOut>>

\* sign_tx, lines 69-89: one iteration of the loop over the coin solutions
SignCoinSolution ==
    /\ pcS = "sign"
    /\ sigIdx <= Len(spend_bundle[1].coin_solutions)
    /\ LET coin_solution == spend_bundle[1].coin_solutions[sigIdx]
       IN IF ~InSegments(coin_solution.coin.puzzle_hash, puzzle_hash_to_sk)
          THEN /\ pcS' = "unknown_key"
               /\ UNCHANGED <<aggregate_signature, signed, sigIdx>>
          ELSE IF RunError(coin_solution)
          THEN /\ pcS' = "sign_failed"
               /\ UNCHANGED <<aggregate_signature, signed, sigIdx>>
          ELSE IF Len(pkm_pairs(coin_solution)) # 1
          THEN /\ pcS' = "assertion_error"
               /\ UNCHANGED <<aggregate_signature, signed, sigIdx>>
          ELSE LET sk == calculate_synthetic_secret_key(coin_solution.coin.puzzle_hash)
                   msg == pkm_pairs(coin_solution)[1][2]
               IN /\ aggregate_signature' =
                        Aggregate(aggregate_signature, Sign(sk, msg))
                  /\ signed' = signed + 1
                  /\ sigIdx' = sigIdx + 1
                  /\ pcS' = "sign"
    /\ UNCHANGED <<inputVars, pc, logVars, scanVars, selectVars, idx, buildVars, cost,
                   emitted, use_hardened_keys, spend_bundle, puzzle_hash_to_sk, signedOut>>

\* sign_tx, lines 91-94: the signed bundle is printed
SignEmit ==
    /\ pcS = "sign"
    /\ sigIdx > Len(spend_bundle[1].coin_solutions)
    /\ signedOut' = <<to_json_dict(SpendBundle(spend_bundle[1].coin_solutions,
                                               aggregate_signature))>>
    /\ pcS' = "signed"
    /\ UNCHANGED <<inputVars, pc, logVars, scanVars, selectVars, idx, buildVars, cost,
                   emitted, use_hardened_keys, spend_bundle, puzzle_hash_to_sk,
                   aggregate_signature, signed, sigIdx>>

Next ==
    \/ MainPrintAddresses
    \/ GetBlockchainState
    \/ HardenedKeys
    \/ HardenedRecordsReturn
    \/ DeriveBatch
    \/ BatchRecordsReturn
    \/ SortRecords
    \/ SelectCoin
    \/ SelectExhausted
    \/ InsufficientFunds
    \/ MakePrimaries
    \/ BuildSpend
    \/ CheckCost
    \/ EmitBundle
    \/ SignMain
    \/ SignCoinSolution
    \/ SignEmit

Spec == Init /\ [][Next]_vars

\* the scan phase alone: the steps of create_unsigned_tx up to the sort
ScanNext ==
    \/ MainPrintAddresses
    \/ GetBlockchainState
    \/ HardenedKeys
    \/ HardenedRecordsReturn
    \/ DeriveBatch
    \/ BatchRecordsReturn
    \/ SortRecords

\* the scan reads neither the outputs nor the fee: a run asking for nothing
ScanInit ==
    /\ Init
    /\ outputs = <<>>
    /\ fee = 0

\* asyncio.run(main()) runs the coroutine to completion: an enabled step of
\* the single task is eventually taken
ScanFairSpec == ScanInit /\ [][ScanNext]_vars /\ WF_vars(ScanNext)

\* ------------------------------------------------------- property helpers
SumAmounts(coins) == SumSeq([i \in DOMAIN coins |-> coins[i].amount])
RecordCoins(recs) == [i \in DOMAIN recs |-> recs[i].coin]
NoRepeat(s) == \A i, j \in DOMAIN s : i # j => s[i] # s[j]
Prefix(s, k) == SubSeq(s, 1, k)
UnhardenedMode == Len(public_keys) = 0

\* the selection loop and the funds check are over and the run went on
Selected ==
    pc \in {"build", "invalid_address", "key_error", "cost_exceeded", "check_fee",
            "fee_mismatch", "conditions_error", "done"}
SelectionOver == Selected \/ pc = "insufficient"
\* the loop over the selected coins is over
Built ==
    \/ pc = "build" /\ idx > Len(selected_coins)
    \/ pc \in {"cost_exceeded", "check_fee", "fee_mismatch", "conditions_error", "done"}

\* C1: selection yields coins of the discovered records, none twice, with a
\* total of at least the target sum(outputs) + fee, or the run fails with
\* insufficient funds; it fails so exactly when the total of all discovered
\* records is below the target; the duplicate-coin assertion never fails.
C1_SelectionCorrect ==
    /\ pc # "duplicate_coin"
    /\ SelectionOver =>
        /\ total_amount = TotalAmount(outputs, fee)
        /\ (pc = "insufficient") <=> (SumAmounts(RecordCoins(records)) < total_amount)
        /\ Selected =>
            /\ Range(selected_coins) \subseteq Range(RecordCoins(records))
            /\ NoRepeat(selected_coins)
            /\ SumAmounts(selected_coins) >= total_amount
C1_Witness ==
    /\ Selected
    /\ Len(selected_coins) >= 2
    /\ Len(selected_coins) < Len(records)
C1_WitnessFail == pc = "insufficient" /\ Len(records) >= 2

\* C2: an unsigned document is emitted only when the node reported synced,
\* the selected total reached the target, the reported cost is below half of
\* the maximum block cost and the realized fee of the emitted bundle equals
\* the requested fee; a run that ended in any failure has emitted nothing.
C2_AllOrNothing ==
    /\ emitted # <<>> =>
        /\ pc = "done"
        /\ state = <<[sync |-> [synced |-> TRUE]]>>
        /\ SumAmounts(selected_coins) >= TotalAmount(outputs, fee)
        /\ 2 * cost < MAX_BLOCK_COST_CLVM
        /\ Fees(from_json_dict(emitted[1])) = fee
        /\ SumAmounts(RecordCoins(from_json_dict(emitted[1]).coin_solutions))
              >= TotalAmount(outputs, fee)
    /\ (Terminated /\ pc # "done") => emitted = <<>>
C2_Witness ==
    /\ emitted # <<>>
    /\ Len(from_json_dict(emitted[1]).coin_solutions) >= 2
    /\ fee > 0
C2_WitnessFail == pc = "cost_exceeded" /\ emitted = <<>>

\* the bundle handed to sign_tx holds a coin spend whose puzzle hash is not
\* among the keys the signer derives
HasUnknownKey ==
    /\ spend_bundle # <<>>
    /\ \E k \in DOMAIN spend_bundle[1].coin_solutions :
          ~InSegments(spend_bundle[1].coin_solutions[k].coin.puzzle_hash,
                      SignerKeyMap(use_hardened_keys))
FirstUnknownKey ==
    CHOOSE k \in DOMAIN spend_bundle[1].coin_solutions :
        /\ ~InSegments(spend_bundle[1].coin_solutions[k].coin.puzzle_hash,
                       SignerKeyMap(use_hardened_keys))
        /\ \A j \in 1..(k - 1) :
              InSegments(spend_bundle[1].coin_solutions[j].coin.puzzle_hash,
                         SignerKeyMap(use_hardened_keys))

\* C3: when some coin spend of the bundle given to sign_tx has a puzzle hash
\* outside the signer's key map, sign_tx never prints a signed bundle: the
\* loop never passes that coin spend and ends in the unknown-key failure,
\* wherever the coin spend is and however many were signed before it.
C3_UnknownKeyNoSignature ==
    HasUnknownKey =>
        /\ signedOut = <<>>
        /\ pcS \in {"sign", "unknown_key"}
        /\ sigIdx <= FirstUnknownKey
        /\ signed < FirstUnknownKey
C3_Witness ==
    /\ HasUnknownKey
    /\ pcS = "unknown_key"
    /\ signed >= 1

\* the binding message built for outputs outs and the selected coins
MessageFor(outs) ==
    BindingMessage(selected_coins,
                   Primaries(outs, total_selected_amount - TotalAmount(outs, fee),
                             puzzle_hashes),
                   selected_coins[1])
\* outputs with a good address
GoodOutputs == Addresses \X (0..(MaxOutAmount + 1))

\* C4: the binding message is the hash of the names of the selected coins
\* followed by the names of the coins the bundle creates, and every
\* non-primary spend asserts the announcement of that message; replacing any
\* one output by one with another amount or destination, the selected coins
\* being the same, gives another message and another announcement.
C4_BindingIntegrity ==
    (Built /\ Len(selected_coins) >= 1) =>
        /\ message = <<std_hash([i \in DOMAIN selected_coins |-> CoinName(selected_coins[i])]
                                \o [i \in DOMAIN Additions(spends) |->
                                        CoinName(Additions(spends)[i])])>>
        /\ \A k \in 2..Len(spends) :
              spends[k].solution.coin_announcements_to_assert =
                 <<AnnouncementName(CoinName(selected_coins[1]), message[1])>>
        /\ \A i \in DOMAIN outputs : \A alt \in GoodOutputs :
              alt # outputs[i] =>
                 /\ MessageFor([outputs EXCEPT ![i] = alt]) # message[1]
                 /\ AnnouncementName(CoinName(selected_coins[1]),
                                     MessageFor([outputs EXCEPT ![i] = alt]))
                       # primary_announcement_hash[1]
C4_Witness ==
    /\ Built
    /\ Len(selected_coins) >= 2
    /\ Len(outputs) >= 2
    /\ change > 0

\* C5: a bundle built from N >= 1 selected coins has N coin spends, the k-th
\* spending the k-th selected coin; the first creates the outputs, pays the
\* fee and creates the announcement of the binding message, and each other
\* one creates nothing and only asserts the announcement named by the first
\* coin and the binding message.
C5_PrimaryAssertionStructure ==
    (Built /\ Len(selected_coins) >= 1) =>
        /\ Len(spends) = Len(selected_coins)
        /\ \A k \in DOMAIN spends : spends[k].coin = selected_coins[k]
        /\ spends[1].solution =
              make_solution(primaries, fee, message, <<>>)
        /\ message # <<>>
        /\ \A k \in 2..Len(spends) :
              spends[k].solution =
                 make_solution(<<>>, 0, <<>>,
                    <<AnnouncementName(CoinName(spends[1].coin), message[1])>>)
        /\ emitted # <<>> => from_json_dict(emitted[1]).coin_solutions = spends
C5_Witness ==
    /\ emitted # <<>>
    /\ Len(spends) >= 3

\* the (puzzle hash, amount) pairs of the coins a bundle creates
CreatedOutputs(bundle) ==
    [i \in DOMAIN Additions(bundle.coin_solutions) |->
        <<Additions(bundle.coin_solutions)[i].puzzle_hash,
          Additions(bundle.coin_solutions)[i].amount>>]
RequestedOutputs ==
    [i \in DOMAIN outputs |-> <<decode_puzzle_hash(outputs[i][1]), outputs[i][2]>>]
\* the lowest-index address of the scan
FirstDerivedAddress ==
    IF UnhardenedMode THEN UnhardenedPuzzleHash(0) ELSE HardenedPuzzleHash(0)

\* C6: in every successful build change = total of the selected coins - sum
\* of the requested amounts - fee >= 0, and the outputs the emitted bundle
\* creates are the requested outputs followed, exactly when change > 0, by
\* one output of amount change to the first derived address.
C6_ChangeRule ==
    emitted # <<>> =>
        /\ change = SumAmounts(selected_coins)
                      - SumSeq([i \in DOMAIN outputs |-> outputs[i][2]]) - fee
        /\ change >= 0
        /\ CreatedOutputs(from_json_dict(emitted[1])) =
              RequestedOutputs
              \o (IF change > 0 THEN <<<<FirstDerivedAddress, change>>>> ELSE <<>>)

\* the least k in lo..Len(records) whose first k records total at least the
\* target
LeastPrefix(lo) ==
    CHOOSE k \in lo..Len(records) :
        /\ SumAmounts(RecordCoins(Prefix(records, k))) >= total_amount
        /\ \A j \in lo..(k - 1) :
              SumAmounts(RecordCoins(Prefix(records, j))) < total_amount
\* records holds every discovered record once, oldest first
SortedDiscovered ==
    /\ \A i, j \in DOMAIN records : i < j => records[i].timestamp <= records[j].timestamp
    /\ Range(records) = CoinsFor(ledger, puzzle_hashes)
    /\ Len(records) = Cardinality(CoinsFor(ledger, puzzle_hashes))

\* C7 as claimed: on success the selected coins are the shortest prefix
\* (possibly empty) of the sorted records reaching the target, also for a
\* target of 0.
C7_ShortestPrefix ==
    Selected =>
        /\ SortedDiscovered
        /\ selected_coins = RecordCoins(Prefix(records, LeastPrefix(0)))

\* C7 amended: on success the selected coins are the shortest prefix of the
\* sorted records that reaches the target and that holds the oldest record
\* when there is any record; no coin after the first is selected once the
\* running total before it reaches the target.
C7_ShortestNonEmptyPrefix ==
    Selected =>
        /\ SortedDiscovered
        /\ selected_coins =
              RecordCoins(Prefix(records,
                                 LeastPrefix(IF Len(records) > 0 THEN 1 ELSE 0)))
        /\ \A k \in 2..Len(selected_coins) :
              SumAmounts(Prefix(selected_coins, k - 1)) < total_amount
C7_Witness ==
    /\ Selected
    /\ total_amount = 0
    /\ Len(records) >= 2
    /\ Len(selected_coins) = 1
C7_WitnessPositive ==
    /\ Selected
    /\ total_amount >= 2
    /\ Len(selected_coins) = 2
    /\ Len(records) >= 3

\* C8 as claimed: a run that found the node not synced has derived no key
\* or address and has sent no coin-record query.
C8_NotSyncedNoDerivation ==
    pc = "not_synced" => (derivLog = <<>> /\ queryLog = <<>>)

\* C8 amended: when the node is not synced, create_transaction asks for the
\* state once, derives no key of the scan, sends no coin-record query, emits
\* nothing and ends in the not-synced failure; the only derivations of the
\* run are the addresses main prints before calling create_transaction.
C8_NotSyncedFailsFast ==
    (state # <<>> /\ ~state[1].sync.synced) =>
        /\ pc = "not_synced"
        /\ stateCalls = 1
        /\ puzzle_hashes = <<>> /\ puzzle_hash_to_pk = <<>>
        /\ queryLog = <<>> /\ inflight = <<>>
        /\ Range(derivLog) \subseteq Range(MainAddresses \o MainHardenedAddresses)
        /\ emitted = <<>>
C8_Witness == pc = "not_synced" /\ stateCalls = 1 /\ derivLog # <<>>

\* the batch segment number k
BatchSegment(k) == Segment("u", k * BatchSize, k * BatchSize + BatchSize - 1)
\* the first batch holding no unspent coin of the ledger
FirstEmptyBatch ==
    CHOOSE k \in 0..Cardinality(ledger) :
        /\ CoinsFor(ledger, <<BatchSegment(k)>>) = {}
        /\ \A j \in 0..(k - 1) : CoinsFor(ledger, <<BatchSegment(j)>>) # {}
ScanOver == pc \notin {"main", "get_state", "derive_batch", "await_batch"}
C9_Safety ==
    (UnhardenedMode /\ pc # "not_synced") =>
        \* batches 0, 1, 2, ... are derived and queried in this order, one
        \* query per derived batch, at most one in flight
        /\ \A k \in DOMAIN queryLog : queryLog[k] = <<BatchSegment(k - 1)>>
        /\ puzzle_hashes = [k \in DOMAIN puzzle_hashes |-> BatchSegment(k - 1)]
        /\ Len(puzzle_hashes) = Len(queryLog)
        /\ pc = "derive_batch" => (inflight = <<>> /\ Len(queryLog) = batch)
        /\ pc = "await_batch" =>
              (inflight = <<<<BatchSegment(batch)>>>> /\ Len(queryLog) = batch + 1)
        \* no batch after the first empty one is derived or queried
        /\ Len(queryLog) <= FirstEmptyBatch + 1
        /\ ScanOver =>
              /\ Len(queryLog) = FirstEmptyBatch + 1
              /\ inflight = <<>>
              /\ Range(records) =
                    UNION {CoinsFor(ledger, <<BatchSegment(k)>>) :
                              k \in 0..(FirstEmptyBatch - 1)}
              /\ Len(records) = Cardinality(Range(records))

\* C9: in unhardened mode batches of 1000 indices are derived and queried
\* one after another in increasing order, the next batch only once the
\* answer for the previous one arrived; the scan stops at the first batch
\* with no record, queries nothing after it and so terminates; the records
\* then are exactly those of the batches before the first empty batch.
C9_GapLimitScan == []C9_Safety /\ <>ScanOver
C9_Witness ==
    /\ UnhardenedMode
    /\ pc = "select"
    /\ FirstEmptyBatch = 1
    /\ Cardinality(CoinsFor(ledger, <<BatchSegment(2)>>)) = 1
    /\ Len(records) >= 2

\* C10: every bundle built in unhardened mode is signed by sign_tx run in
\* unhardened mode without an unknown-key failure.
C10_SignerCoversDiscovery ==
    (UnhardenedMode /\ ~use_hardened_keys) => pcS # "unknown_key"
====
